---- MODULE Spec2Model ----
(***************************************************************************)
(* Model of the Alteryx plugins of PythonSDKTools.                         *)
(*                                                                         *)
(* Plinko plugin (src/PlinkoSDK/PlinkoSDKEngine.py): the host constructs   *)
(* the plugin and calls pi_init(str_xml); pi_init parses the               *)
(* configuration, runs the valid checks, fetches the output anchors and    *)
(* calls plinko_stat, which builds the mass table cell by cell.            *)
(* pi_push_all_records pushes the table and its last row to the two        *)
(* output anchors, pi_close checks the anchor.  SpecConc runs plinko_stat  *)
(* for two independent callers, SpecPascal the Pascal plugin               *)
(* (src/PascalTriangle/PascalTriangleEngine.py), SpecExample the Python    *)
(* example (src/1a_PythonExample/1a_PythonExampleEngine.py) and SpecSwarm  *)
(* the Swarmplot plugin without an incoming connection                     *)
(* (src/Swarmplot/swarmplotEngine.py).                                     *)
(*                                                                         *)
(* A mass m is represented by the integer m * Unit.  Every mass the code   *)
(* produces is 1.0 halved at most (number_rows - 1) times, a dyadic        *)
(* rational that IEEE doubles hold exactly, so the float division by 2 of  *)
(* the source is the exact integer halving of the representation.          *)
(***************************************************************************)
EXTENDS Integers, Sequences, FiniteSets, TLC

\* Bounds of the model.
MaxWidth == 3
MaxRows == 4
\* Bounds of the inputs of the concurrent callers.
ConcWidth == 2
ConcRows == 3
\* Largest number of rows for which the Pascal plugin pushes its records.
MaxNRows == 6
\* Largest StartingPos the host sends: reaches beyond the last column.
MaxStart == 2 * MaxWidth
\* The representation of the mass 1.0.
Unit == 2 ^ MaxRows

\* Python's None (the configured integers are all positive).
None == -1

\* The host's side: the position of the lifecycle, the configuration it
\* passes, the messages it has received and its output anchors.
\* plinko is the Plinko plugin object, local the frame of plinko_stat.
VARIABLES pc, str_xml, messages, anchors, plinko, local

\* calls holds the frames of the invocations of plinko_stat of independent
\* callers, each with its own plugin object.
VARIABLES calls

\* pascal is the Pascal plugin object (src/PascalTriangle); while it runs,
\* local is the frame of its method Pascal.
VARIABLES pascal

\* example is the plugin object of the Python example
\* (src/1a_PythonExample), swarmplot the one of the Swarmplot plugin
\* (src/Swarmplot).
VARIABLES example, swarmplot

vars == <<pc, str_xml, messages, anchors, plinko, local, calls, pascal,
          example, swarmplot>>

----------------------------------------------------------------------------
\* Text of integers: str(n) and int(text), on sequences of decimal digits.

RECURSIVE str(_)
str(n) == IF n < 10 THEN <<n>> ELSE Append(str(n \div 10), n % 10)

RECURSIVE int(_)
int(text) ==
    IF Len(text) = 1 THEN text[1]
    ELSE 10 * int(SubSeq(text, 1, Len(text) - 1)) + text[Len(text)]

\* The configuration document: the tags it holds, each with its text.
Xml(w, r, s) ==
    [tag \in ((IF w = None THEN {} ELSE {"NumberSlots"}) \cup
              (IF r = None THEN {} ELSE {"NumberRows"}) \cup
              (IF s = None THEN {} ELSE {"StartingPos"})) |->
        IF tag = "NumberSlots" THEN str(w)
        ELSE IF tag = "NumberRows" THEN str(r) ELSE str(s)]

\* int(Et.fromstring(str_xml).find(tag).text) if tag in str_xml else None
Configured(xml, tag) == IF tag \in DOMAIN xml THEN int(xml[tag]) ELSE None

----------------------------------------------------------------------------
\* The engine: plinko_stat on a DataFrame df, a function row -> column -> value.

Columns(df) == DOMAIN df[0]
Index(df) == DOMAIN df
MaxColumn(df) == Cardinality(Columns(df)) - 1

\* pd.DataFrame([range(1,max_width*2)]*number_rows)
NewDataFrame(max_width, number_rows) ==
    [r \in 0..(number_rows - 1) |-> [c \in 0..(2 * max_width - 2) |-> c + 1]]

\* ZeroFill with the two indices of iloc exchanged.
ZeroFill_exchanged(df) ==
    [r \in Index(df) |-> [c \in Columns(df) |->
        IF r \in Columns(df) /\ c \in Index(df) THEN 0 ELSE df[r][c]]]

\* for x in df.columns: for y in df.index: df.iloc[y,x] = 0
ZeroFill(df) == [r \in Index(df) |-> [c \in Columns(df) |-> 0]]

\* PlaceStart with the count started at 0.
PlaceStart_count0(df, starting_position) ==
    [df EXCEPT ![0] = [c \in Columns(df) |->
        IF c = starting_position THEN Unit ELSE df[0][c]]]

\* count = 1; for y in df.columns: if count == starting_position: df.iloc[0,y] = 1
PlaceStart(df, starting_position) ==
    [df EXCEPT ![0] = [c \in Columns(df) |->
        IF c + 1 = starting_position THEN Unit ELSE df[0][c]]]

\* LeftContribution without the halving.
LeftContribution_full(df, x, y) ==
    IF y - 1 >= 0 THEN df[x - 1][y - 1] ELSE 0

\* LeftContribution with the exception at the first column.
LeftContribution_first(df, x, y) ==
    LET tempval == IF y - 1 >= 0 THEN df[x - 1][y - 1] ELSE 0
    IN  IF y = 0 THEN tempval ELSE tempval \div 2

\* The share of the left source y-1 in the cell (x, y).
LeftContribution(df, x, y) ==
    LET tempval == IF y - 1 >= 0 THEN df[x - 1][y - 1] ELSE 0
    IN  IF y = 1 THEN tempval ELSE tempval \div 2

\* RightContribution with the exception at the last column.
RightContribution_last(df, x, y) ==
    LET tempval == IF y + 1 <= MaxColumn(df) THEN df[x - 1][y + 1] ELSE 0
    IN  IF y = MaxColumn(df) THEN tempval ELSE tempval \div 2

\* The share of the right source y+1 in the cell (x, y).
RightContribution(df, x, y) ==
    LET tempval == IF y + 1 <= MaxColumn(df) THEN df[x - 1][y + 1] ELSE 0
    IN  IF y = MaxColumn(df) - 1 THEN tempval ELSE tempval \div 2

\* One pass of the inner loop body: df.iloc[x,y] = val
SetCell(df, x, y) ==
    [df EXCEPT ![x][y] = LeftContribution(df, x, y) + RightContribution(df, x, y)]

\* last_row = df.iloc[-1,][df.iloc[-1,]!=0], as the pairs <<label, value>>
\* in the order of the columns.
RECURSIVE NonZeroFrom(_, _)
NonZeroFrom(row, c) ==
    IF c \notin DOMAIN row THEN <<>>
    ELSE IF row[c] # 0 THEN <<<<c, row[c]>>>> \o NonZeroFrom(row, c + 1)
    ELSE NonZeroFrom(row, c + 1)

\* LastRowOf without the filter.
LastRowOf_unfiltered(df) ==
    [i \in 1..Cardinality(Columns(df)) |->
        <<i - 1, df[Cardinality(Index(df)) - 1][i - 1]>>]

\* LastRowOf on the first row.
LastRowOf_first(df) == NonZeroFrom(df[0], 0)

LastRowOf(df) == NonZeroFrom(df[Cardinality(Index(df)) - 1], 0)

\* The position of the loops "for x in df.index: ... for y in df.columns"
\* after the cell (x, y).
NextCell(df, x, y) ==
    IF y < MaxColumn(df) THEN [x |-> x, y |-> y + 1] ELSE [x |-> x + 1, y |-> 0]

RECURSIVE Propagate(_, _, _)
Propagate(df, x, y) ==
    IF x \notin Index(df) THEN df
    ELSE LET n == NextCell(df, x, y) IN Propagate(SetCell(df, x, y), n.x, n.y)

\* plinko_stat as a function of the three configured values: the table.
plinko_stat(max_width, number_rows, starting_position) ==
    Propagate(PlaceStart(ZeroFill(NewDataFrame(max_width, number_rows)),
                         starting_position), 1, 0)

----------------------------------------------------------------------------
\* The output anchors of the host (Sdk.OutputAnchor): the record layout
\* given to init, the records pushed, and the calls in their order.

NewAnchor == [fields |-> <<>>, records |-> <<>>, events |-> <<>>]

AnchorInit(anchor, record_info_out) ==
    [anchor EXCEPT !.fields = record_info_out, !.events = Append(@, "init")]

AnchorPush(anchor, out_record) ==
    [anchor EXCEPT !.records = Append(@, out_record), !.events = Append(@, "push")]

AnchorClose(anchor) == [anchor EXCEPT !.events = Append(@, "close")]

RECURSIVE AnchorPushEach(_, _)
AnchorPushEach(anchor, out_records) ==
    IF out_records = <<>> THEN anchor
    ELSE AnchorPushEach(AnchorPush(anchor, Head(out_records)), Tail(out_records))

\* PushAll without the close.
PushAll_open(anchor, record_info_out, out_records) ==
    AnchorPushEach(AnchorInit(anchor, record_info_out), out_records)

\* anchor.init(record_info_out); one push_record per record; anchor.close()
PushAll(anchor, record_info_out, out_records) ==
    AnchorClose(AnchorPushEach(AnchorInit(anchor, record_info_out), out_records))

----------------------------------------------------------------------------
\* The plugin.

\* ValidChecks without the comparison with the number of slots.
ValidChecks_empty_only(starting_pos, max_width) ==
    IF starting_pos = None
    THEN <<[type |-> "error", text |-> "Starting Position cannot be empty."]>>
    ELSE <<>>

\* The messages of the valid checks of pi_init.
ValidChecks(starting_pos, max_width) ==
    IF starting_pos = None
    THEN <<[type |-> "error", text |-> "Starting Position cannot be empty."]>>
    ELSE IF starting_pos > max_width
    THEN <<[type |-> "error",
            text |-> "Starting Position cannot be greater than the number of slots."]>>
    ELSE <<>>

NoFrame == <<>>
InStat == "df" \in DOMAIN local

\* The plugin before the host calls it.
PlinkoIdle ==
    /\ pc = "constructed"
    /\ str_xml = <<>>
    /\ plinko = [max_width |-> None, number_rows |-> None, starting_pos |-> None,
                 DataFrame |-> "None", LastRow |-> "None"]
    /\ messages = <<>>
    /\ anchors = [DataFrame |-> NewAnchor, LastRow |-> NewAnchor]
    /\ local = NoFrame

Init ==
    /\ calls = <<>>
    /\ pascal = <<>>
    /\ example = <<>>
    /\ swarmplot = <<>>
    /\ pc = "constructed"
    /\ str_xml = <<>>
    /\ plinko = [max_width |-> None, number_rows |-> None, starting_pos |-> None,
                 DataFrame |-> "None", LastRow |-> "None"]
    /\ messages = <<>>
    /\ anchors = [DataFrame |-> NewAnchor, LastRow |-> NewAnchor]
    /\ local = NoFrame

\* pi_init, the starting values from the configuration.
Plinko_pi_init_config ==
    /\ pc = "constructed"
    /\ \E w \in {None} \cup (1..MaxWidth), r \in {None} \cup (1..MaxRows),
          s \in {None} \cup (1..MaxStart) :
          /\ str_xml' = Xml(w, r, s)
          /\ plinko' = [plinko EXCEPT
                          !.max_width = Configured(str_xml', "NumberSlots"),
                          !.number_rows = Configured(str_xml', "NumberRows"),
                          !.starting_pos = Configured(str_xml', "StartingPos")]
    /\ pc' = "valid_checks"
    /\ UNCHANGED <<messages, anchors, local, calls, pascal, example, swarmplot>>

\* pi_init, the valid checks and the output anchors.  With a starting
\* position and no number of slots the comparison raises TypeError.
Plinko_pi_init_valid_checks ==
    /\ pc = "valid_checks"
    /\ IF plinko.starting_pos # None /\ plinko.max_width = None
       THEN /\ pc' = "raised"
            /\ UNCHANGED <<plinko, messages>>
       ELSE /\ messages' = messages \o ValidChecks(plinko.starting_pos, plinko.max_width)
            /\ plinko' =
                 LET p == [plinko EXCEPT !.LastRow = "LastRow", !.DataFrame = "DataFrame"]
                 IN  IF ValidChecks(plinko.starting_pos, plinko.max_width) # <<>>
                     THEN ("is_initialized" :> FALSE) @@ p
                     ELSE p
            /\ pc' = "plinko_stat"
    /\ UNCHANGED <<str_xml, anchors, local, calls, pascal, example, swarmplot>>

\* plinko_stat, the zeroed DataFrame.  Without a number of slots or of rows
\* the construction raises TypeError.
Plinko_stat_build ==
    /\ pc = "plinko_stat"
    /\ IF plinko.max_width = None \/ plinko.number_rows = None
       THEN /\ pc' = "raised"
            /\ UNCHANGED local
       ELSE /\ local' = [df |-> ZeroFill(NewDataFrame(plinko.max_width, plinko.number_rows)),
                         x |-> 0, y |-> 0]
            /\ pc' = "stat_place"
    /\ UNCHANGED <<str_xml, messages, anchors, plinko, calls, pascal, example, swarmplot>>

\* plinko_stat, the initial mass; row 0 of the propagation loop passes.
Plinko_stat_place ==
    /\ pc = "stat_place"
    /\ local' = [df |-> PlaceStart(local.df, plinko.starting_pos), x |-> 1, y |-> 0]
    /\ pc' = IF 1 \in Index(local.df) THEN "stat_cell" ELSE "stat_return"
    /\ UNCHANGED <<str_xml, messages, anchors, plinko, calls, pascal, example, swarmplot>>

\* plinko_stat, one cell of the propagation.
Plinko_stat_cell ==
    /\ pc = "stat_cell"
    /\ LET n == NextCell(local.df, local.x, local.y)
       IN  /\ local' = [df |-> SetCell(local.df, local.x, local.y), x |-> n.x, y |-> n.y]
           /\ pc' = IF n.x \in Index(local.df) THEN "stat_cell" ELSE "stat_return"
    /\ UNCHANGED <<str_xml, messages, anchors, plinko, calls, pascal, example, swarmplot>>

\* plinko_stat returns; pi_init stores self.df, self.last_row.
Plinko_stat_return ==
    /\ pc = "stat_return"
    /\ plinko' = ("df" :> local.df) @@ ("last_row" :> LastRowOf(local.df)) @@ plinko
    /\ local' = NoFrame
    /\ pc' = "initialized"
    /\ UNCHANGED <<str_xml, messages, anchors, calls, pascal, example, swarmplot>>

\* The text of the decimal digits of rem / Unit.
RECURSIVE Fraction(_)
Fraction(rem) ==
    IF rem = 0 THEN <<>>
    ELSE <<(rem * 10) \div Unit>> \o Fraction((rem * 10) % Unit)

\* str(value) of a cell: the digits before and after the point.  A cell of
\* an integer column prints without a point (frac is empty), a cell of a
\* float column with at least one digit after it.
CellText(value, is_float) ==
    [whole |-> str(value \div Unit),
     frac |-> IF ~is_float THEN <<>>
              ELSE IF value % Unit = 0 THEN <<0>> ELSE Fraction(value % Unit)]

\* Assigning a fractional value to a cell of the integer DataFrame makes its
\* column float64; depending on the pandas release it makes the whole
\* single-dtype block float64 (block_upcast).
HasFraction(df, columns) ==
    \E r \in Index(df) : \E c \in columns : df[r][c] % Unit # 0
IsFloatColumn(df, c, block_upcast) ==
    \/ HasFraction(df, {c})
    \/ block_upcast /\ HasFraction(df, Columns(df))

\* build_record_info_out: one float field per column of a DataFrame; a
\* Series has no columns, and gets the fields Position and Value.
build_record_info_out(obj) ==
    IF "columns" \in DOMAIN obj
    THEN [t \in 1..Cardinality(obj.columns) |-> [name |-> str(t - 1), type |-> "float"]]
    ELSE <<[name |-> "Position", type |-> "int16"], [name |-> "Value", type |-> "float"]>>

\* DataFrameRecords without the last row.
DataFrameRecords_short(df, block_upcast) ==
    [i \in 1..(Cardinality(Index(df)) - 1) |->
        [t \in 1..Cardinality(Columns(df)) |->
            CellText(df[i - 1][t - 1], IsFloatColumn(df, t - 1, block_upcast))]]

\* The records of self.df: for each row, the text of each column.
DataFrameRecords(df, block_upcast) ==
    [i \in 1..Cardinality(Index(df)) |->
        [t \in 1..Cardinality(Columns(df)) |->
            CellText(df[i - 1][t - 1], IsFloatColumn(df, t - 1, block_upcast))]]

\* The records of self.last_row: str(row) and str(self.last_row[row]).  The
\* row of a DataFrame with a float column is a float Series.
LastRowRecords(last_row, is_float) ==
    [i \in 1..Len(last_row) |->
        <<str(last_row[i][1]), CellText(last_row[i][2], is_float)>>]

\* pi_push_all_records: the DataFrame anchor, then the LastRow anchor.
Plinko_pi_push_all_records ==
    /\ pc = "initialized"
    /\ \E block_upcast \in (IF HasFraction(plinko.df, Columns(plinko.df))
                             THEN BOOLEAN ELSE {FALSE}) :
          anchors' = [anchors EXCEPT
              !.DataFrame = PushAll(@, build_record_info_out([columns |-> Columns(plinko.df)]),
                                    DataFrameRecords(plinko.df, block_upcast)),
              !.LastRow = PushAll(@, build_record_info_out([index |-> plinko.last_row]),
                                  LastRowRecords(plinko.last_row,
                                      HasFraction(plinko.df, Columns(plinko.df))))]
    /\ pc' = "pushed"
    /\ UNCHANGED <<str_xml, messages, plinko, local, calls, pascal, example, swarmplot>>

\* self.DataFrame.assert_close(): an anchor left open is reported.
assert_close(anchor) ==
    IF Len(anchor.events) > 0 /\ anchor.events[Len(anchor.events)] = "close"
    THEN <<>>
    ELSE <<[type |-> "error", text |-> "Output anchor was not closed."]>>

\* pi_close
Plinko_pi_close ==
    /\ pc = "pushed"
    /\ messages' = messages \o assert_close(anchors.DataFrame)
    /\ pc' = "closed"
    /\ UNCHANGED <<str_xml, anchors, plinko, local, calls, pascal, example, swarmplot>>

Next ==
    \/ Plinko_pi_init_config
    \/ Plinko_pi_init_valid_checks
    \/ Plinko_stat_build
    \/ Plinko_stat_place
    \/ Plinko_stat_cell
    \/ Plinko_stat_return
    \/ Plinko_pi_push_all_records
    \/ Plinko_pi_close

Spec == Init /\ [][Next]_vars

----------------------------------------------------------------------------
\* Independent callers of plinko_stat, their steps interleaved.

Callers == {1, 2}

\* A caller that has not called yet.
IdleCall == [pc |-> "idle"]

\* The frame of a call: the plugin object it runs on (self, with args the
\* values it was configured with), the local df and the loop position.
NewCall(max_width, number_rows, starting_pos) ==
    [pc |-> "build",
     args |-> <<max_width, number_rows, starting_pos>>,
     self |-> [max_width |-> max_width, number_rows |-> number_rows,
               starting_pos |-> starting_pos],
     df |-> <<>>, x |-> 0, y |-> 0, ret |-> <<>>]

\* One step of plinko_stat in a frame.
StatStep(f) ==
    CASE f.pc = "build" ->
            [f EXCEPT !.df = ZeroFill(NewDataFrame(f.self.max_width, f.self.number_rows)),
                      !.pc = "place"]
      [] f.pc = "place" ->
            [f EXCEPT !.df = PlaceStart(f.df, f.self.starting_pos),
                      !.x = 1, !.y = 0,
                      !.pc = IF 1 \in Index(f.df) THEN "cell" ELSE "return"]
      [] f.pc = "cell" ->
            LET n == NextCell(f.df, f.x, f.y)
            IN  [f EXCEPT !.df = SetCell(f.df, f.x, f.y), !.x = n.x, !.y = n.y,
                          !.pc = IF n.x \in Index(f.df) THEN "cell" ELSE "return"]
      [] f.pc = "return" ->
            [f EXCEPT !.ret = [df |-> f.df, last_row |-> LastRowOf(f.df)],
                      !.df = <<>>, !.pc = "done"]

HasGrid(f) == f.pc \in {"place", "cell", "return"}
SameShape(f, g) ==
    /\ HasGrid(f) /\ HasGrid(g)
    /\ Index(f.df) = Index(g.df) /\ Columns(f.df) = Columns(g.df)

\* StepOf with one df for all callers (a df that is not local): a step
\* writes its df into the frames that hold one of the same shape.
StepOf_shared(cs, i) ==
    [j \in DOMAIN cs |->
        IF j = i THEN StatStep(cs[i])
        ELSE IF cs[i].pc \in {"build", "place", "cell"}
                /\ SameShape(StatStep(cs[i]), cs[j])
        THEN [cs[j] EXCEPT !.df = StatStep(cs[i]).df]
        ELSE cs[j]]

\* A step of caller i: df, x, y are locals of its own invocation.
StepOf(cs, i) == [cs EXCEPT ![i] = StatStep(cs[i])]

InitConc ==
    /\ PlinkoIdle
    /\ pascal = <<>>
    /\ example = <<>>
    /\ swarmplot = <<>>
    /\ calls = [i \in Callers |-> IdleCall]

\* A caller invokes plinko_stat on its plugin object.
Conc_call(i) ==
    /\ calls[i].pc = "idle"
    /\ \E w \in 1..ConcWidth, r \in 1..ConcRows :
          \E s \in 1..w : calls' = [calls EXCEPT ![i] = NewCall(w, r, s)]
    /\ UNCHANGED <<pc, str_xml, messages, anchors, plinko, local, pascal,
                 example, swarmplot>>

\* A caller takes the next step of its invocation.
Conc_step(i) ==
    /\ calls[i].pc \in {"build", "place", "cell", "return"}
    /\ calls' = StepOf(calls, i)
    /\ UNCHANGED <<pc, str_xml, messages, anchors, plinko, local, pascal,
                 example, swarmplot>>

NextConc == \E i \in Callers : Conc_call(i) \/ Conc_step(i)

SpecConc == InitConc /\ [][NextConc]_vars

----------------------------------------------------------------------------
\* Pascal plugin (src/PascalTriangle/PascalTriangleEngine.py): pi_init reads
\* NRows, pi_push_all_records builds the triangle with Pascal, cell by cell,
\* and pushes one record per row, pi_close checks the anchor.

\* The characters of a text are the digits 0..9 and the two below.
Minus == 10
Letter == 11

\* The cap of pi_init and the number of rows it falls back to.
RowCap == 100
DefaultRows == 5

\* The cell '' that replace() leaves for a 0.
EmptyString == -2

\* str(n) of an integer of either sign.
str_int(n) == IF n < 0 THEN <<Minus>> \o str(-n) ELSE str(n)

IsDigits(text) == Len(text) >= 1 /\ \A i \in DOMAIN text : text[i] \in 0..9
\* The texts int() accepts.
IsIntLiteral(text) ==
    \/ IsDigits(text)
    \/ Len(text) >= 2 /\ text[1] = Minus /\ IsDigits(Tail(text))
IntValue(text) == IF text[1] = Minus THEN 0 - int(Tail(text)) ELSE int(text)

\* The try block of pi_init: int(temp_n_rows), with ValueError for a text
\* that is no integer and TypeError for the None of an empty element.
ParseNRows(temp_n_rows) ==
    IF temp_n_rows = <<>>
    THEN [n_rows |-> DefaultRows,
          messages |-> <<[type |-> "warning",
                          text |-> "Invalid number of rows! Defaulting to  5 rows."]>>]
    ELSE IF ~IsIntLiteral(temp_n_rows)
    THEN [n_rows |-> DefaultRows,
          messages |-> <<[type |-> "warning",
                          text |-> "Number of rows is not an integer! Defaulting to  5 rows."]>>]
    ELSE [n_rows |-> IntValue(temp_n_rows), messages |-> <<>>]

\* CapRows without the cap.
CapRows_none(n_rows) == [n_rows |-> n_rows, messages |-> <<>>]

\* if self.n_rows > 100: self.n_rows = 100, with its warning.
CapRows(n_rows) ==
    IF n_rows > RowCap
    THEN [n_rows |-> RowCap,
          messages |-> <<[type |-> "warning",
                          text |-> "Maximum number of rows reached, capped at 100"]>>]
    ELSE [n_rows |-> n_rows, messages |-> <<>>]

RECURSIVE Product(_, _)
Product(a, b) == IF a > b THEN 1 ELSE a * Product(a + 1, b)

\* int(scipy.special.binom(n, k)) for integers n, k >= 0: the quotient of
\* the two products over the smaller of k and n - k; 0 for k > n.  The
\* floats of scipy are exact for the coefficients of the rows modelled.
binom(n, k) ==
    LET kx == IF k > n \div 2 /\ n > 0 THEN n - k ELSE k
    IN  IF kx < 0 THEN 0 ELSE Product(n - kx + 1, n) \div Product(1, kx)

\* pd.DataFrame(0, index=range(value+1), columns=range((value+1)*2-1))
NewPascalFrame(value) ==
    [index |-> 0..value, columns |-> 0..((value + 1) * 2 - 2),
     cell |-> [r \in 0..value |-> [c \in 0..((value + 1) * 2 - 2) |-> 0]]]

\* SetPascalCell with the step of the stair left out.
SetPascalCell_nodiff(df, index, column) ==
    IF column * 2 \in df.columns
    THEN [df EXCEPT !.cell[index][column * 2] = binom(index, column)]
    ELSE df

\* try: df.iloc[index,(column*2 + diff)] = int(binom(index, column))
\* except: pass  -- a position beyond the last column raises IndexError.
SetPascalCell(df, index, column) ==
    LET diff == Cardinality(df.index) - (index + 1)
    IN  IF column * 2 + diff \in df.columns
        THEN [df EXCEPT !.cell[index][column * 2 + diff] = binom(index, column)]
        ELSE df

\* df.replace(to_replace=0, value='', inplace=True)
ReplaceZeros(df) ==
    [df EXCEPT !.cell = [r \in df.index |-> [c \in df.columns |->
        IF df.cell[r][c] = 0 THEN EmptyString ELSE df.cell[r][c]]]]

\* The position of the loops of Pascal after the cell (index, column).
NextPascalCell(df, index, column) ==
    IF column + 1 \in df.columns THEN [index |-> index, column |-> column + 1]
    ELSE [index |-> index + 1, column |-> 0]

\* build_record_info_out: one string field per column.
Pascal_build_record_info_out(df) ==
    [t \in 1..Cardinality(df.columns) |->
        [name |-> str(t - 1), type |-> "string", size |-> 254]]

\* The records of self.dataframe: for each row, str() of each column.
PascalRecords(df) ==
    [i \in 1..Cardinality(df.index) |->
        [t \in 1..Cardinality(df.columns) |->
            IF df.cell[i - 1][t - 1] = EmptyString THEN <<>>
            ELSE str_int(df.cell[i - 1][t - 1])]]

\* str(self.n_rows)+' records were processed.'
ProcessedMessage(n_rows) ==
    [type |-> "info", count |-> str_int(n_rows), text |-> " records were processed."]

\* The texts of NRows the host sends.
NRowsValues == {-3} \cup (0..MaxNRows) \cup {RowCap - 1, RowCap, RowCap + 1, RowCap + 50}
NRowsTexts ==
    {str_int(n) : n \in NRowsValues} \cup {<<>>, <<Letter>>, <<2, Letter>>, <<Minus>>}

InitPascal ==
    /\ pc = "constructed"
    /\ str_xml = <<>>
    /\ messages = <<>>
    /\ anchors = [Output |-> NewAnchor]
    /\ pascal = [is_initialized |-> TRUE, output_anchor |-> "None", n_rows |-> None]
    /\ local = NoFrame
    /\ plinko = <<>>
    /\ calls = <<>>
    /\ example = <<>>
    /\ swarmplot = <<>>

\* pi_init.  Without the element NRows, find() returns None and .text
\* raises AttributeError.
Pascal_pi_init ==
    /\ pc = "constructed"
    /\ \E xml \in {<<>>} \cup {[NRows |-> text] : text \in NRowsTexts} :
          /\ str_xml' = xml
          /\ IF "NRows" \notin DOMAIN xml
             THEN /\ pascal' = [pascal EXCEPT !.output_anchor = "Output"]
                  /\ pc' = "raised"
                  /\ UNCHANGED messages
             ELSE LET parsed == ParseNRows(xml.NRows)
                      capped == CapRows(parsed.n_rows)
                  IN  /\ pascal' = [pascal EXCEPT
                             !.output_anchor = "Output",
                             !.n_rows = capped.n_rows,
                             !.is_initialized =
                                 IF parsed.messages \o capped.messages = <<>>
                                 THEN @ ELSE FALSE]
                      /\ messages' = messages \o parsed.messages \o capped.messages
                      /\ pc' = "initialized"
    /\ UNCHANGED <<anchors, local, plinko, calls, example, swarmplot>>

\* pi_push_all_records calls Pascal(self.n_rows): the DataFrame of zeros.
Pascal_build ==
    /\ pc = "initialized"
    /\ pascal.n_rows <= MaxNRows
    /\ local' = [df |-> NewPascalFrame(pascal.n_rows), index |-> 0, column |-> 0]
    /\ pc' = IF pascal.n_rows >= 0 THEN "pascal_cell" ELSE "pascal_return"
    /\ UNCHANGED <<str_xml, messages, anchors, pascal, plinko, calls, example, swarmplot>>

\* Pascal, one cell of the two loops.
Pascal_cell ==
    /\ pc = "pascal_cell"
    /\ LET n == NextPascalCell(local.df, local.index, local.column)
       IN  /\ local' = [df |-> SetPascalCell(local.df, local.index, local.column),
                        index |-> n.index, column |-> n.column]
           /\ pc' = IF n.index \in local.df.index THEN "pascal_cell" ELSE "pascal_return"
    /\ UNCHANGED <<str_xml, messages, anchors, pascal, plinko, calls, example, swarmplot>>

\* Pascal replaces the zeros and returns; pi_push_all_records stores
\* self.dataframe, pushes its rows, reports and closes the anchor.
Pascal_pi_push_all_records ==
    /\ pc = "pascal_return"
    /\ LET dataframe == ReplaceZeros(local.df)
       IN  /\ pascal' = ("dataframe" :> dataframe) @@ pascal
           /\ anchors' = [anchors EXCEPT
                  !.Output = PushAll(@, Pascal_build_record_info_out(dataframe),
                                     PascalRecords(dataframe))]
    /\ messages' = Append(messages, ProcessedMessage(pascal.n_rows))
    /\ local' = NoFrame
    /\ pc' = "pushed"
    /\ UNCHANGED <<str_xml, plinko, calls, example, swarmplot>>

\* pi_close
Pascal_pi_close ==
    /\ pc = "pushed"
    /\ messages' = messages \o assert_close(anchors.Output)
    /\ pc' = "closed"
    /\ UNCHANGED <<str_xml, anchors, pascal, local, plinko, calls, example, swarmplot>>

NextPascal ==
    \/ Pascal_pi_init
    \/ Pascal_build
    \/ Pascal_cell
    \/ Pascal_pi_push_all_records
    \/ Pascal_pi_close

SpecPascal == InitPascal /\ [][NextPascal]_vars

----------------------------------------------------------------------------
\* Python example plugin (src/1a_PythonExample/1a_PythonExampleEngine.py):
\* pi_init reads NColumns, pi_push_all_records builds the record layout
\* field by field, fills one record with the text 'InfoLab' and pushes it,
\* pi_close checks the anchor.

\* Largest NColumns the host sends.
MaxNColumns == 10

\* The size of the string fields of the record layout.
FieldSize == 254

\* self.output_text = ['InfoLab'], a text being the sequence of its characters.
OutputText == << <<"I", "n", "f", "o", "L", "a", "b">> >>

\* 'NewText_'+str(i)
FieldName(i) == [prefix |-> "NewText_", index |-> str(i)]

\* record_info_out.add_field('NewText_'+str(i), Sdk.FieldType.string, 254)
AddField(record_info_out, i) ==
    Append(record_info_out, [name |-> FieldName(i), type |-> "string", size |-> FieldSize])

\* Repeat with one copy less.
Repeat_short(list, n) ==
    IF n <= 1 THEN <<>>
    ELSE [k \in 1..(Len(list) * (n - 1)) |-> list[((k - 1) % Len(list)) + 1]]

\* list * n: n copies of the list one after the other, none for n <= 0.
Repeat(list, n) ==
    IF n <= 0 THEN <<>>
    ELSE [k \in 1..(Len(list) * n) |-> list[((k - 1) % Len(list)) + 1]]

\* record_info_out[k].set_from_string(record_creator, text): the creator
\* holds the text of field k, cut at the size of the field.  A creator is
\* the function from the positions of the fields set so far to their text.
SetFromString(record_creator, record_info_out, k, text) ==
    LET size == record_info_out[k + 1].size
    IN  (k :> SubSeq(text, 1, IF Len(text) < size THEN Len(text) ELSE size))
            @@ record_creator

\* record_creator.finalize_record(): for each field of the layout its text,
\* or null for a field that was not set.  A field of the record is the
\* sequence of at most one text.
FinalizeRecord(record_creator, record_info_out) ==
    [t \in 1..Len(record_info_out) |->
        IF (t - 1) \in DOMAIN record_creator THEN <<record_creator[t - 1]>> ELSE <<>>]

\* The texts of NColumns the host sends.
NColumnsTexts ==
    {str_int(n) : n \in {-3} \cup (0..MaxNColumns)} \cup {<<>>, <<Letter>>}

InitExample ==
    /\ pc = "constructed"
    /\ str_xml = <<>>
    /\ messages = <<>>
    /\ anchors = [Output |-> NewAnchor]
    /\ example = [is_initialized |-> TRUE, output_anchor |-> "None",
                  output_text |-> OutputText, n_columns |-> None]
    /\ local = NoFrame
    /\ plinko = <<>>
    /\ calls = <<>>
    /\ pascal = <<>>
    /\ swarmplot = <<>>

\* pi_init: the output anchor, then NColumns.  int() raises TypeError for
\* the None of an empty element and ValueError for a text that is no integer.
Example_pi_init ==
    /\ pc = "constructed"
    /\ \E xml \in {<<>>} \cup {[NColumns |-> text] : text \in NColumnsTexts} :
          /\ str_xml' = xml
          /\ IF "NColumns" \notin DOMAIN xml
             THEN /\ example' = [example EXCEPT !.output_anchor = "Output",
                                                !.n_columns = None]
                  /\ pc' = "initialized"
             ELSE IF ~IsIntLiteral(xml.NColumns)
             THEN /\ example' = [example EXCEPT !.output_anchor = "Output"]
                  /\ pc' = "raised"
             ELSE /\ example' = [example EXCEPT !.output_anchor = "Output",
                                                !.n_columns = IntValue(xml.NColumns)]
                  /\ pc' = "initialized"
    /\ UNCHANGED <<messages, anchors, local, plinko, calls, pascal, swarmplot>>

\* pi_push_all_records calls build_record_info_out: a fresh RecordInfo.
\* Without NColumns range(None) raises TypeError.
Example_build_record_info_out ==
    /\ pc = "initialized"
    /\ IF example.n_columns = None
       THEN /\ pc' = "raised"
            /\ UNCHANGED local
       ELSE /\ local' = [record_info_out |-> <<>>, i |-> 0]
            /\ pc' = "add_field"
    /\ UNCHANGED <<str_xml, messages, anchors, example, plinko, calls, pascal, swarmplot>>

\* build_record_info_out, one pass of "for i in range(self.n_columns)".
Example_add_field ==
    /\ pc = "add_field"
    /\ local.i < example.n_columns
    /\ local' = [local EXCEPT !.record_info_out = AddField(@, local.i), !.i = @ + 1]
    /\ UNCHANGED <<pc, str_xml, messages, anchors, example, plinko, calls, pascal,
                   swarmplot>>

\* build_record_info_out returns; pi_push_all_records initialises the
\* anchor with the layout and constructs the record creator.
Example_anchor_init ==
    /\ pc = "add_field"
    /\ local.i >= example.n_columns
    /\ anchors' = [anchors EXCEPT !.Output = AnchorInit(@, local.record_info_out)]
    /\ local' = [record_info_out |-> local.record_info_out,
                 record_creator |-> <<>>,
                 texts |-> Repeat(example.output_text, example.n_columns),
                 k |-> 0]
    /\ pc' = "set_field"
    /\ UNCHANGED <<str_xml, messages, example, plinko, calls, pascal, swarmplot>>

\* One pass of "for field in enumerate(self.output_text*self.n_columns)".
Example_set_field ==
    /\ pc = "set_field"
    /\ local.k < Len(local.texts)
    /\ local' = [local EXCEPT
                    !.record_creator = SetFromString(@, local.record_info_out, local.k,
                                                     local.texts[local.k + 1]),
                    !.k = @ + 1]
    /\ UNCHANGED <<pc, str_xml, messages, anchors, example, plinko, calls, pascal,
                   swarmplot>>

\* The record is finalized and pushed, the message sent, the anchor closed;
\* pi_push_all_records returns True.
Example_push_record ==
    /\ pc = "set_field"
    /\ local.k >= Len(local.texts)
    /\ anchors' = [anchors EXCEPT !.Output =
            AnchorClose(AnchorPush(@, FinalizeRecord(local.record_creator,
                                                     local.record_info_out)))]
    /\ messages' = Append(messages, [type |-> "info", text |-> "One Record"])
    /\ local' = [return |-> TRUE]
    /\ pc' = "pushed"
    /\ UNCHANGED <<str_xml, example, plinko, calls, pascal, swarmplot>>

\* pi_close
Example_pi_close ==
    /\ pc = "pushed"
    /\ messages' = messages \o assert_close(anchors.Output)
    /\ pc' = "closed"
    /\ UNCHANGED <<str_xml, anchors, example, local, plinko, calls, pascal, swarmplot>>

NextExample ==
    \/ Example_pi_init
    \/ Example_build_record_info_out
    \/ Example_add_field
    \/ Example_anchor_init
    \/ Example_set_field
    \/ Example_push_record
    \/ Example_pi_close

SpecExample == InitExample /\ [][NextExample]_vars

----------------------------------------------------------------------------
\* Swarmplot plugin (src/Swarmplot/swarmplotEngine.py) without an incoming
\* connection: pi_init reads the configuration, pi_push_all_records reports
\* the missing connection, pi_close checks the anchor.
\*
\* A text is the sequence of its tokens, a token being a word or ","; the
\* text None of an empty element is the empty sequence.  An attribute that
\* is None or a text is the sequence of at most one text.  A message built
\* by concatenation carries its tokens in the field parts.

SwarmTags ==
    {"FieldSelectMulti", "DataField", "ColorField", "CheckBoxDespine",
     "CheckBoxLegend", "CheckBoxTrim", "DropDownOverlay1"}

\* The texts the host sends for each element.
SwarmTexts(tag) ==
    IF tag = "FieldSelectMulti" THEN {<<>>, <<"x", ",", "y">>}
    ELSE IF tag = "DataField" THEN {<<>>, <<"k">>}
    ELSE IF tag = "ColorField" THEN {<<>>, <<"c">>}
    ELSE IF tag = "DropDownOverlay1"
    THEN {<<>>, <<"nothing">>, <<"violin">>, <<"boxplot">>, <<"other">>}
    ELSE {<<>>, <<"True">>, <<"False">>}

\* A configuration document without the elements of missing.
SwarmXml(doc, missing) == [tag \in (SwarmTags \ missing) |-> doc[tag]]

\* The documents lack no element, every element, or the last one.
SwarmMissing == {{}, SwarmTags, {"DropDownOverlay1"}}

\* text.split(","): the texts between the commas.
RECURSIVE Split(_)
Split(text) ==
    IF \A i \in DOMAIN text : text[i] # "," THEN <<text>>
    ELSE LET i == CHOOSE i \in DOMAIN text :
                      text[i] = "," /\ \A j \in 1..(i - 1) : text[j] # ","
         IN  <<SubSeq(text, 1, i - 1)>> \o Split(SubSeq(text, i + 1, Len(text)))

\* str(list) of a list of texts.
RECURSIVE ListItems(_)
ListItems(list) ==
    IF list = <<>> THEN <<>>
    ELSE <<"'">> \o Head(list) \o <<"'">> \o
         (IF Tail(list) = <<>> THEN <<>> ELSE <<", ">> \o ListItems(Tail(list)))
ListRepr(list) == <<"[">> \o ListItems(list) \o <<"]">>

\* str(value) of an attribute that is None or a text.
OptionRepr(value) == IF value = <<>> THEN <<"None">> ELSE value[1]

\* The run of pi_init: the plugin object, the messages sent, the local
\* info_msg, whether an exception was raised, and the local msg_desp once
\* it is bound.
NewRun(self) == [self |-> self, out |-> <<>>, info_msg |-> <<>>, raised |-> FALSE]

Raise(f) == [f EXCEPT !.raised = TRUE]
Emit(f, type, text) == [f EXCEPT !.out = Append(@, [type |-> type, text |-> text])]
EmitParts(f, type, parts) ==
    [f EXCEPT !.out = Append(@, [type |-> type, parts |-> parts])]
SetAttr(f, name, value) == [f EXCEPT !.self = (name :> value) @@ @]

\* msg_desp += text: UnboundLocalError while msg_desp is not bound.
AppendDesp(f, text) ==
    IF "msg_desp" \in DOMAIN f THEN [f EXCEPT !.msg_desp = @ \o text] ELSE Raise(f)

\* Et.fromstring(str_xml).find(tag).text raises AttributeError without the
\* element.
HasElement(xml, tag) == tag \in DOMAIN xml

\* pi_init, FieldSelectMulti.  Without a selection the error is sent and
\* str(self.field_selection) raises AttributeError: __init__ does not set
\* the attribute.
ReadFieldSelection(xml, f) ==
    IF ~HasElement(xml, "FieldSelectMulti") THEN Raise(f)
    ELSE IF xml.FieldSelectMulti # <<>>
    THEN LET g == SetAttr(SetAttr(f, "field_selection", Split(xml.FieldSelectMulti)),
                          "is_valid", TRUE)
         IN  [g EXCEPT !.info_msg =
                 <<"Field selection: ">> \o ListRepr(g.self.field_selection)]
    ELSE Raise(Emit(f, "error", "Please select fields for melting the data"))

\* pi_init, DataField.
ReadKey(xml, f) ==
    IF f.raised THEN f
    ELSE IF ~HasElement(xml, "DataField") THEN Raise(f)
    ELSE LET g == IF xml.DataField # <<>>
                  THEN SetAttr(SetAttr(f, "key_var", <<Split(xml.DataField)[1]>>),
                               "is_valid", TRUE)
                  ELSE Emit(f, "info", "No key selected")
         IN  [g EXCEPT !.info_msg =
                 @ \o <<"; Field for key: ">> \o OptionRepr(g.self.key_var)]

\* pi_init, ColorField: color_var is a text, '' without a selection.
ReadColor(xml, f) ==
    IF f.raised THEN f
    ELSE IF ~HasElement(xml, "ColorField") THEN Raise(f)
    ELSE IF xml.ColorField # <<>>
    THEN LET g == SetAttr(f, "color_var", Split(xml.ColorField)[1])
         IN  [g EXCEPT !.info_msg = @ \o <<"; Field for color: ">> \o g.self.color_var]
    ELSE [SetAttr(f, "color_var", <<>>) EXCEPT !.info_msg = @ \o
             <<"; Field for color not selected, color will be randomly assigned">>]

\* pi_init, the check of color against key and the messages info_msg, N1.
CheckColor(f) ==
    IF f.raised THEN f
    ELSE LET g == IF f.self.color_var # <<>> /\ f.self.key_var = <<>>
                  THEN Emit(f, "error",
                            "A color column cannot be passed if no key was selected")
                  ELSE f
         IN  Emit(EmitParts(g, "info", g.info_msg), "info", "N1")

\* pi_init, CheckBoxDespine: binds msg_desp when the element has a text.
ReadDespine(xml, f) ==
    IF f.raised THEN f
    ELSE IF ~HasElement(xml, "CheckBoxDespine") THEN Raise(f)
    ELSE LET text == xml.CheckBoxDespine
             g == IF text = <<"True">> THEN SetAttr(f, "despine", FALSE) ELSE f
             h == IF text # <<>>
                  THEN ("msg_desp" :> (IF g.self.despine THEN <<"Despine ON">>
                                       ELSE <<"Despine Disabled">>)) @@ g
                  ELSE f
         IN  Emit(h, "info", "N2")

\* pi_init, CheckBoxLegend.
ReadLegend(xml, f) ==
    IF f.raised THEN f
    ELSE IF ~HasElement(xml, "CheckBoxLegend") THEN Raise(f)
    ELSE LET text == xml.CheckBoxLegend
             g == IF text = <<"True">> THEN SetAttr(f, "remove_legend", TRUE) ELSE f
             h == IF text # <<>>
                  THEN AppendDesp(g, IF g.self.remove_legend THEN <<", Legend Disabled">>
                                     ELSE <<", Legend ON">>)
                  ELSE f
         IN  IF h.raised THEN h ELSE Emit(h, "info", "N3")

\* pi_init, CheckBoxTrim.
ReadTrim(xml, f) ==
    IF f.raised THEN f
    ELSE IF ~HasElement(xml, "CheckBoxTrim") THEN Raise(f)
    ELSE LET text == xml.CheckBoxTrim
             g == IF text = <<"True">> THEN SetAttr(f, "trim", FALSE) ELSE f
             h == IF text # <<>>
                  THEN AppendDesp(g, IF g.self.trim THEN <<", Trimming ON">>
                                     ELSE <<", Trimming Disabled">>)
                  ELSE f
         IN  IF h.raised THEN h ELSE Emit(h, "info", "N4")

\* pi_init, DropDownOverlay1.
ReadOverlay(xml, f) ==
    IF f.raised THEN f
    ELSE IF ~HasElement(xml, "DropDownOverlay1") THEN Raise(f)
    ELSE LET selection == xml.DropDownOverlay1
             g == IF selection = <<"violin">> THEN SetAttr(f, "plot_violin", TRUE)
                  ELSE IF selection = <<"boxplot">> THEN SetAttr(f, "plot_boxplot", TRUE)
                  ELSE f
             h == IF selection # <<>>
                  THEN AppendDesp(g, <<"; ">> \o selection \o <<" overlay">>)
                  ELSE f
         IN  IF h.raised THEN h ELSE Emit(h, "info", "N5")

\* pi_init, the message msg_desp (UnboundLocalError while it is not bound)
\* and the output anchor.
GetOutputAnchor(f) ==
    IF f.raised THEN f
    ELSE IF "msg_desp" \notin DOMAIN f THEN Raise(f)
    ELSE SetAttr(EmitParts(f, "info", f.msg_desp), "output_anchor", "Output")

\* pi_init on a configuration document.
Swarm_init(self, xml) ==
    GetOutputAnchor(ReadOverlay(xml, ReadTrim(xml, ReadLegend(xml, ReadDespine(xml,
        CheckColor(ReadColor(xml, ReadKey(xml, ReadFieldSelection(xml,
            NewRun(self))))))))))

\* PushWithoutInput as the push of the plugins that have no input.
PushWithoutInput_pushes(anchor) ==
    [messages |-> <<>>, anchor |-> PushAll(anchor, <<>>, <<>>), return |-> TRUE]

\* pi_push_all_records: the error message, the anchor as it was, and the
\* value returned.
PushWithoutInput(anchor) ==
    [messages |-> <<[type |-> "error", text |-> "Missing Incoming Connection"]>>,
     anchor |-> anchor,
     return |-> FALSE]

InitSwarm ==
    /\ pc = "constructed"
    /\ str_xml = <<>>
    /\ messages = <<>>
    /\ anchors = [Output |-> NewAnchor]
    /\ swarmplot = [single_input |-> "None", despine |-> TRUE, trim |-> TRUE,
                    remove_legend |-> FALSE, plot_violin |-> FALSE,
                    plot_boxplot |-> FALSE, key_var |-> <<>>]
    /\ local = NoFrame
    /\ plinko = <<>>
    /\ calls = <<>>
    /\ pascal = <<>>
    /\ example = <<>>

\* pi_init
Swarm_pi_init ==
    /\ pc = "constructed"
    /\ \E doc \in [FieldSelectMulti : SwarmTexts("FieldSelectMulti"),
                   DataField : SwarmTexts("DataField"),
                   ColorField : SwarmTexts("ColorField"),
                   CheckBoxDespine : SwarmTexts("CheckBoxDespine"),
                   CheckBoxLegend : SwarmTexts("CheckBoxLegend"),
                   CheckBoxTrim : SwarmTexts("CheckBoxTrim"),
                   DropDownOverlay1 : SwarmTexts("DropDownOverlay1")] :
       \E missing \in SwarmMissing :
          LET run == Swarm_init(swarmplot, SwarmXml(doc, missing))
          IN  /\ str_xml' = SwarmXml(doc, missing)
              /\ swarmplot' = run.self
              /\ messages' = messages \o run.out
              /\ pc' = IF run.raised THEN "raised" ELSE "initialized"
    /\ UNCHANGED <<anchors, local, plinko, calls, pascal, example>>

\* pi_push_all_records
Swarm_pi_push_all_records ==
    /\ pc = "initialized"
    /\ LET pushed == PushWithoutInput(anchors.Output)
       IN  /\ messages' = messages \o pushed.messages
           /\ anchors' = [anchors EXCEPT !.Output = pushed.anchor]
           /\ local' = [return |-> pushed.return]
    /\ pc' = "pushed"
    /\ UNCHANGED <<str_xml, swarmplot, plinko, calls, pascal, example>>

\* pi_close: self.output_anchor.assert_close().  The source does not tell
\* whether the host reports an anchor that was never initialised.
Swarm_pi_close ==
    /\ pc = "pushed"
    /\ \E reported \in BOOLEAN :
          messages' = messages \o
              (IF reported THEN assert_close(anchors.Output) ELSE <<>>)
    /\ pc' = "closed"
    /\ UNCHANGED <<str_xml, anchors, swarmplot, local, plinko, calls, pascal, example>>

NextSwarm ==
    \/ Swarm_pi_init
    \/ Swarm_pi_push_all_records
    \/ Swarm_pi_close

SpecSwarm == InitSwarm /\ [][NextSwarm]_vars

----------------------------------------------------------------------------
TypeOK ==
    /\ pc \in {"constructed", "valid_checks", "plinko_stat", "stat_place",
               "stat_cell", "stat_return", "initialized", "raised",
               "pushed", "closed"}
    /\ InStat <=> pc \in {"stat_place", "stat_cell", "stat_return"}
    /\ ("df" \in DOMAIN plinko) <=> pc \in {"initialized", "pushed", "closed"}
----------------------------------------------------------------------------
\* Properties of the Plinko plugin.

RECURSIVE SumFrom(_, _)
SumFrom(row, c) == IF c \notin DOMAIN row THEN 0 ELSE row[c] + SumFrom(row, c + 1)

\* The sum of the entries of a row of the table.
RowSum(row) == SumFrom(row, 0)

\* pi_init has returned with a valid configuration:
\* width >= 1, rows >= 1, startingSlot in [1, width].
Returned == pc \in {"initialized", "pushed", "closed"}
ValidInput ==
    /\ plinko.max_width >= 1
    /\ plinko.number_rows >= 1
    /\ plinko.starting_pos >= 1
    /\ plinko.starting_pos <= plinko.max_width

\* The configuration is read and is in error: startingSlot absent or
\* greater than width.
ConfigurationError ==
    /\ pc \notin {"constructed", "valid_checks"}
    /\ \/ plinko.starting_pos = None
       \/ plinko.max_width # None /\ plinko.starting_pos > plinko.max_width

\* C1: for every valid input, every row of the returned MassTable sums to
\* 1.0, the mass of row 0.
C1_MassConserved ==
    (Returned /\ ValidInput) =>
        \A r \in Index(plinko.df) : RowSum(plinko.df[r]) = Unit

\* C2: on a configuration error the computation does not proceed:
\* plinko_stat is not run and neither a MassTable nor a FinalDistribution
\* is stored on the plugin.
C2_NoComputationOnError ==
    ConfigurationError =>
        /\ ~InStat
        /\ "df" \notin DOMAIN plinko
        /\ "last_row" \notin DOMAIN plinko

\* C3: when startingSlot is missing or exceeds width an error message is
\* emitted, it is there before the computation of the table begins (in
\* every state from the end of the valid checks on), and starting_pos is
\* the configured value, never a clamped one.
C3_ErrorBeforeComputation ==
    ConfigurationError =>
        /\ Len(messages) = 1
        /\ messages[1].type = "error"
        /\ plinko.starting_pos = Configured(str_xml, "StartingPos")

C3_Witness ==
    /\ pc = "stat_cell"
    /\ plinko.starting_pos = 5
    /\ plinko.max_width = 3
    /\ Len(messages) = 1

\* C4: for every valid input, row 0 of the MassTable holds 1.0 at the
\* column whose 1-indexed position is startingSlot, 0 everywhere else, so
\* exactly one non-zero entry.
C4_RowZeroImpulse ==
    (Returned /\ ValidInput) =>
        /\ \A c \in Columns(plinko.df) :
              plinko.df[0][c] = IF c + 1 = plinko.starting_pos THEN Unit ELSE 0
        /\ Cardinality({c \in Columns(plinko.df) : plinko.df[0][c] # 0}) = 1

C4_Witness ==
    /\ Returned /\ ValidInput
    /\ plinko.number_rows > 1
    /\ plinko.starting_pos = 2
    /\ plinko.df[0][1] = Unit
\* The mass a FinalDistribution holds at a column (0 when it is not listed).
MassAt(last_row, c) ==
    IF \E i \in DOMAIN last_row : last_row[i][1] = c
    THEN (CHOOSE p \in {last_row[i] : i \in DOMAIN last_row} : p[1] = c)[2]
    ELSE 0

\* C5 as stated: with rows = 1 the FinalDistribution is {startingSlot: 1.0}.
C5_KeyedByStartingSlot ==
    (Returned /\ ValidInput /\ plinko.number_rows = 1) =>
        plinko.last_row = <<<<plinko.starting_pos, Unit>>>>

\* C5, amended: with rows = 1 the FinalDistribution is the single pair
\* {startingSlot - 1: 1.0}, keyed by the 0-based label of the starting column.
C5_KeyedByColumnLabel ==
    (Returned /\ ValidInput /\ plinko.number_rows = 1) =>
        plinko.last_row = <<<<plinko.starting_pos - 1, Unit>>>>

C5_Witness ==
    /\ Returned /\ ValidInput
    /\ plinko.number_rows = 1
    /\ plinko.max_width = 3
    /\ plinko.starting_pos = 2
    /\ Len(plinko.last_row) = 1

\* C6: the FinalDistribution of the start at slot W+1-k is the mirror image,
\* column for column, of the FinalDistribution of the start at slot k: the
\* mirror of the table (c |-> 2W-2-c) or the mirror of the slots
\* (c |-> W-1-c).
C6_MirrorSymmetry ==
    (Returned /\ ValidInput) =>
        LET W == plinko.max_width
            mirrored == LastRowOf(plinko_stat(W, plinko.number_rows,
                                              W + 1 - plinko.starting_pos))
        IN  \/ \A c \in Columns(plinko.df) :
                  MassAt(mirrored, c) = MassAt(plinko.last_row, 2 * W - 2 - c)
            \/ \A c \in Columns(plinko.df) :
                  MassAt(mirrored, c) = MassAt(plinko.last_row, W - 1 - c)
\* The value of a source column of the previous row; a source that is
\* negative or beyond the last column contributes 0.
Source(df, r, c) == IF c \in Columns(df) THEN df[r - 1][c] ELSE 0

\* The columns the code treats as edge exceptions: the neighbours of the
\* first and of the last column.
EdgeException(df, c) == c = 1 \/ c = MaxColumn(df) - 1

\* The DataFrame under construction, or the one pi_init has stored.
Table == IF InStat THEN local.df ELSE plinko.df
HasTable == InStat \/ "df" \in DOMAIN plinko
\* The rows the propagation has completed.
Propagated(r) ==
    /\ r \in Index(Table) /\ r >= 1
    /\ InStat => (pc # "stat_place" /\ r < local.x)

C8_EdgeAtFirstAndLast ==
    HasTable =>
        \A r \in Index(Table) : \A c \in Columns(Table) :
            Propagated(r) =>
                Table[r][c] =
                    (IF c = 0 THEN Source(Table, r, c - 1)
                     ELSE Source(Table, r, c - 1) \div 2)
                    + (IF c = MaxColumn(Table) THEN Source(Table, r, c + 1)
                       ELSE Source(Table, r, c + 1) \div 2)

\* C8, amended: the left source (the first column) is taken in full when
\* the destination is column 1, the right source (the last column) when the
\* destination is column 2*width-3; every other destination takes half of
\* each source.
C8_EdgeAtNeighbours ==
    HasTable =>
        \A r \in Index(Table) : \A c \in Columns(Table) :
            Propagated(r) =>
                Table[r][c] =
                    (IF c = 1 THEN Source(Table, r, c - 1)
                     ELSE Source(Table, r, c - 1) \div 2)
                    + (IF c = 2 * plinko.max_width - 3 THEN Source(Table, r, c + 1)
                       ELSE Source(Table, r, c + 1) \div 2)

\* Both edges have passed their full mass on.
C8_Witness ==
    /\ Returned
    /\ plinko.max_width = 3 /\ plinko.number_rows = 4 /\ plinko.starting_pos = 3
    /\ plinko.df[2][0] # 0 /\ plinko.df[3][1] = plinko.df[2][0] + plinko.df[2][2] \div 2
    /\ plinko.df[2][4] # 0 /\ plinko.df[3][3] = plinko.df[2][2] \div 2 + plinko.df[2][4]

\* C9: width=3, rows=2, startingSlot=2: row 1 holds 0.5 at the two columns
\* next to the column of the initial mass and 0 elsewhere.
C9_Example ==
    (Returned /\ plinko.max_width = 3 /\ plinko.number_rows = 2
              /\ plinko.starting_pos = 2) =>
        \E c0 \in Columns(plinko.df) :
            /\ plinko.df[0][c0] = Unit
            /\ \A c \in Columns(plinko.df) :
                  plinko.df[1][c] = IF c = c0 - 1 \/ c = c0 + 1 THEN Unit \div 2 ELSE 0
            /\ Cardinality({c \in Columns(plinko.df) : plinko.df[1][c] # 0}) = 2

C9_Witness ==
    /\ Returned
    /\ plinko.max_width = 3 /\ plinko.number_rows = 2 /\ plinko.starting_pos = 2
    /\ plinko.df[1] = [c \in 0..4 |-> IF c \in {0, 2} THEN Unit \div 2 ELSE 0]

\* The mass of a FinalDistribution on the columns of a set.
RECURSIVE MassOn(_, _)
MassOn(last_row, cols) ==
    IF last_row = <<>> THEN 0
    ELSE (IF Head(last_row)[1] \in cols THEN Head(last_row)[2] ELSE 0)
         + MassOn(Tail(last_row), cols)

\* C10 as stated: width=2, rows=3, startingSlot=1: the mass 1.0 leaves the
\* edge column undivided, and the FinalDistribution holds more mass on the
\* side of the starting edge than on the opposite side.
C10_ConcentratedAtEdge ==
    (Returned /\ plinko.max_width = 2 /\ plinko.number_rows = 3
              /\ plinko.starting_pos = 1) =>
        /\ plinko.df[1][1] = Unit
        /\ MassOn(plinko.last_row, {0}) > MassOn(plinko.last_row, {2})

\* C10, amended: the mass 1.0 leaves the edge column 0 undivided for column
\* 1 in row 1, and the FinalDistribution is {0: 0.5, 2: 0.5}, the same mass
\* on both edges.
C10_SplitOverBothEdges ==
    (Returned /\ plinko.max_width = 2 /\ plinko.number_rows = 3
              /\ plinko.starting_pos = 1) =>
        /\ plinko.df[1] = [c \in 0..2 |-> IF c = 1 THEN Unit ELSE 0]
        /\ plinko.last_row = <<<<0, Unit \div 2>>, <<2, Unit \div 2>>>>

C10_Witness ==
    /\ Returned
    /\ plinko.max_width = 2 /\ plinko.number_rows = 3 /\ plinko.starting_pos = 1
    /\ plinko.df[0][0] = Unit
    /\ Len(plinko.last_row) = 2
\* plinko_stat is about to start the propagation: the DataFrame is zeroed
\* and the initial mass placed.
BeforePropagation ==
    /\ InStat /\ pc # "stat_place"
    /\ local.x = 1 /\ local.y = 0

\* C11: the MassTable has number_rows rows and 2*width-1 columns, from the
\* construction to the return, and before the propagation every cell other
\* than the starting cell of row 0 holds 0.
C11_ZeroedTable ==
    HasTable =>
        /\ Index(Table) = 0..(plinko.number_rows - 1)
        /\ Columns(Table) = 0..(2 * plinko.max_width - 2)
        /\ Cardinality(Index(Table)) = plinko.number_rows
        /\ Cardinality(Columns(Table)) = 2 * plinko.max_width - 1
        /\ pc = "stat_place" =>
              \A r \in Index(Table) : \A c \in Columns(Table) : Table[r][c] = 0
        /\ BeforePropagation =>
              \A r \in Index(Table) : \A c \in Columns(Table) :
                  (r # 0 \/ c # plinko.starting_pos - 1) => Table[r][c] = 0

C11_Witness ==
    /\ BeforePropagation
    /\ plinko.max_width = 3 /\ plinko.number_rows = 2 /\ plinko.starting_pos = 2
    /\ local.df[0][1] = Unit
    /\ local.df[1][4] = 0

\* C12: the FinalDistribution lists exactly the columns of the last row
\* whose mass is not 0, each with that mass, in ascending order of column.
C12_FinalDistribution ==
    Returned =>
        LET last == plinko.df[plinko.number_rows - 1]
            fd == plinko.last_row
        IN  /\ \A i \in DOMAIN fd :
                  /\ fd[i][1] \in Columns(plinko.df)
                  /\ fd[i][2] = last[fd[i][1]]
                  /\ fd[i][2] # 0
            /\ \A c \in Columns(plinko.df) :
                  last[c] # 0 => \E i \in DOMAIN fd : fd[i][1] = c
            /\ \A i, j \in DOMAIN fd : i < j => fd[i][1] < fd[j][1]

C12_Witness ==
    /\ Returned
    /\ plinko.max_width = 3 /\ plinko.number_rows = 3 /\ plinko.starting_pos = 2
    /\ Len(plinko.last_row) = 2
    /\ plinko.last_row[1][1] = 1 /\ plinko.last_row[2][1] = 3
    /\ plinko.df[2][0] = 0

\* The value of the text of a cell.
RECURSIVE FractionValue(_, _)
FractionValue(frac, scale) ==
    IF frac = <<>> THEN 0
    ELSE (Head(frac) * scale) \div 10 + FractionValue(Tail(frac), scale \div 10)
TextValue(text) ==
    int(text.whole) * Unit + FractionValue(text.frac, Unit * (10 ^ Len(text.frac)))
                             \div (10 ^ Len(text.frac))

Pushed == pc \in {"pushed", "closed"}

\* C13: pi_push_all_records pushes to DataFrame one record per row of the
\* MassTable, in the order of the rows, each with one field per column, and
\* to LastRow one record per non-zero final column, each with the two
\* fields slot index and mass.
C13_RecordsPushed ==
    Pushed =>
        LET out == anchors.DataFrame.records
            last == anchors.LastRow.records
        IN  /\ Len(out) = plinko.number_rows
            /\ Len(anchors.DataFrame.fields) = Cardinality(Columns(plinko.df))
            /\ \A i \in DOMAIN out :
                  /\ Len(out[i]) = Cardinality(Columns(plinko.df))
                  /\ \A t \in DOMAIN out[i] :
                        TextValue(out[i][t]) = plinko.df[i - 1][t - 1]
            /\ Len(last) = Cardinality({c \in Columns(plinko.df) :
                                           plinko.df[plinko.number_rows - 1][c] # 0})
            /\ Len(anchors.LastRow.fields) = 2
            /\ \A i \in DOMAIN last :
                  /\ Len(last[i]) = 2
                  /\ int(last[i][1]) = plinko.last_row[i][1]
                  /\ TextValue(last[i][2]) = plinko.last_row[i][2]

C13_Witness ==
    /\ Pushed
    /\ plinko.max_width = 3 /\ plinko.number_rows = 3 /\ plinko.starting_pos = 2
    /\ Len(anchors.DataFrame.records) = 3
    /\ Len(anchors.DataFrame.records[3]) = 5
    /\ Len(anchors.LastRow.records) = 2

\* The calls on an anchor are init, the pushes, close, in this order.
InitPushesClose(events) ==
    /\ Len(events) >= 2
    /\ events[1] = "init"
    /\ events[Len(events)] = "close"
    /\ \A i \in 2..(Len(events) - 1) : events[i] = "push"

\* C14: when pi_push_all_records has returned both anchors are closed; on
\* each anchor init comes before the first push and close after the last,
\* and no record is pushed after the close.
C14_AnchorsClosed ==
    /\ Pushed =>
          \A a \in {"DataFrame", "LastRow"} :
              /\ InitPushesClose(anchors[a].events)
              /\ Len(anchors[a].events) = Len(anchors[a].records) + 2
    /\ \A a \in {"DataFrame", "LastRow"} :
          \A i, j \in DOMAIN anchors[a].events :
              (anchors[a].events[i] = "close" /\ i < j) =>
                  anchors[a].events[j] # "push"
    /\ pc = "closed" => messages = ValidChecks(plinko.starting_pos, plinko.max_width)

C14_Witness ==
    /\ pc = "closed"
    /\ plinko.number_rows = 2
    /\ Len(anchors.DataFrame.records) = 2
    /\ Len(anchors.LastRow.records) >= 1
    /\ anchors.LastRow.events[Len(anchors.LastRow.events)] = "close"

\* The parity of the columns that can hold mass in row r.
RowParity(r) == ((plinko.starting_pos - 1) + r) % 2

\* C23: for every valid input and every row r of the returned MassTable, an
\* entry grid[r][c] is non-zero only if c has the parity of
\* (startingSlot - 1) + r, and every entry is >= 0 and <= 1.
C23_ParityAndRange ==
    (Returned /\ ValidInput) =>
        \A r \in Index(plinko.df) : \A c \in Columns(plinko.df) :
            /\ plinko.df[r][c] # 0 => c % 2 = RowParity(r)
            /\ plinko.df[r][c] >= 0
            /\ plinko.df[r][c] <= Unit

\* A table of three rows or more whose last rows hold mass in several
\* columns, strictly between 0 and 1.
C23_Witness ==
    /\ Returned /\ ValidInput
    /\ plinko.number_rows >= 3
    /\ plinko.max_width = 3
    /\ \E c, d \in Columns(plinko.df) :
          /\ c # d
          /\ plinko.df[2][c] > 0 /\ plinko.df[2][c] < Unit
          /\ plinko.df[2][d] > 0 /\ plinko.df[2][d] < Unit
          /\ c % 2 = RowParity(2) /\ d % 2 = RowParity(2)
----------------------------------------------------------------------------
\* Properties of the callers of plinko_stat.

Done(i) == calls[i].pc = "done"
Called(i) == calls[i].pc # "idle"

Alone(f) ==
    LET df == plinko_stat(f.args[1], f.args[2], f.args[3])
    IN  [df |-> df, last_row |-> LastRowOf(df)]

\* C16: with the steps of two callers interleaved, each returns what it
\* returns alone, and at every step the df of a caller is the one its own
\* steps have built: the rest of its propagation yields its own table.
C16_Independent ==
    \A i \in Callers :
        /\ Done(i) => calls[i].ret = Alone(calls[i])
        /\ calls[i].pc \in {"cell", "return"} =>
              Propagate(calls[i].df, calls[i].x, calls[i].y) = Alone(calls[i]).df
        /\ calls[i].pc = "place" =>
              calls[i].df = ZeroFill(NewDataFrame(calls[i].args[1], calls[i].args[2]))

\* The two callers are both in the propagation, on different inputs.
C16_Witness ==
    /\ calls[1].pc = "cell" /\ calls[2].pc = "cell"
    /\ calls[1].args = <<2, 3, 1>> /\ calls[2].args = <<2, 3, 2>>
    /\ calls[1].x = 2 /\ calls[2].x = 1 /\ calls[2].y = 1
----------------------------------------------------------------------------
\* Properties of the Pascal plugin.

PascalInitialized == pc \notin {"constructed", "raised"}
PascalPushed == pc \in {"pushed", "closed"}
CapWarning ==
    [type |-> "warning", text |-> "Maximum number of rows reached, capped at 100"]
Emitted(m) == \E i \in DOMAIN messages : messages[i] = m

NotAnInteger == "NRows" \in DOMAIN str_xml /\ ~IsIntLiteral(str_xml.NRows)

\* C18: with an NRows that is no integer literal or is empty, pi_init sets
\* n_rows to 5 and emits a warning and no error, and pi_push_all_records
\* goes on to produce the default triangle of 5 rows.
C18_DefaultFiveRows ==
    (PascalInitialized /\ NotAnInteger) =>
        /\ pascal.n_rows = 5
        /\ Len(messages) >= 1 /\ messages[1].type = "warning"
        /\ \A i \in DOMAIN messages : messages[i].type # "error"
        /\ PascalPushed =>
              (Cardinality(pascal.dataframe.index) = 5
               /\ Len(anchors.Output.records) = 5)

\* The binomial coefficient, by the rule of the triangle.
RECURSIVE Choose(_, _)
Choose(i, k) ==
    IF k = 0 \/ k = i THEN 1 ELSE Choose(i - 1, k - 1) + Choose(i - 1, k)

C20_CountIsRecordsPushed ==
    PascalPushed =>
        \E i \in DOMAIN messages :
            /\ messages[i].type = "info"
            /\ IntValue(messages[i].count) = Len(anchors.Output.records)

----------------------------------------------------------------------------
\* Properties of the Python example plugin.

ExamplePushed == pc \in {"pushed", "closed"}

\* The calls made on an anchor so far are the first calls of calls.
StartOf(events, calls_in_order) ==
    /\ Len(events) <= Len(calls_in_order)
    /\ events = SubSeq(calls_in_order, 1, Len(events))

----------------------------------------------------------------------------
\* Properties of the Swarmplot plugin.

SwarmPushed == pc \in {"pushed", "closed"}
MissingConnection == [type |-> "error", text |-> "Missing Incoming Connection"]
Count(m) == Cardinality({i \in DOMAIN messages : messages[i] = m})

\* C22: when the host calls pi_push_all_records the plugin emits the error
\* 'Missing Incoming Connection' and returns False; the Output anchor is
\* neither initialised, pushed to, nor closed.
C22_MissingIncomingConnection ==
    /\ anchors.Output = NewAnchor
    /\ ~SwarmPushed => Count(MissingConnection) = 0
    /\ SwarmPushed =>
          /\ Count(MissingConnection) = 1
          /\ local = [return |-> FALSE]

C22_Witness ==
    /\ pc = "pushed"
    /\ messages[Len(messages)] = MissingConnection
    /\ swarmplot.output_anchor = "Output"
    /\ swarmplot.key_var = << <<"k">> >>
    /\ anchors.Output.events = <<>>
====
